---- MODULE Spec2Model ----
(***************************************************************************)
(* Call-tracking CRM: routing resolver (services/database.py), call ledger *)
(* and telephony webhook (webhook.py), CRM reconciler (services/crm.py).   *)
(*                                                                         *)
(* The backing store (Supabase/PostgREST) is modelled as a set of rows per *)
(* table; every store round trip is one atomic step.  Store requests are   *)
(* answered in this part of the model: the only store errors that appear   *)
(* are constraint violations on insert.                                    *)
(***************************************************************************)
EXTENDS Integers, Sequences, FiniteSets, TLC

(***************************************************************************)
(* Value domains.  Phone numbers and identifiers are opaque strings;       *)
(* campaign names are small positive integers so that ORDER BY campaign    *)
(* has an order to sort by; SQL NULL / Python None is NULL.                *)
(***************************************************************************)
NULL == 0
TrackingNumbers == {"T1", "T2"}
Destinations == {"D1", "D2"}
Campaigns == {1, 2}
Orgs == {1, 2}
NoDestination == "None"

Phones == {"P1", "P2"}
Procs == {1, 2}

\* Python None / SQL NULL in a text column or a text request parameter.
None == "None"
\* Call identifiers the telephony provider assigns.
CallSids == {"CA1"}

\* Table pipeline_stages: stage 1 is the default stage (the inbox).
PipelineStages ==
    {[id |-> 1, is_default |-> TRUE], [id |-> 2, is_default |-> FALSE]}

\* Bounds of the model.
MaxRoutes == 2
MaxEvents == 2
MaxClock == 3
MaxUpper == 2

VARIABLES
    routes,          \* table phone_routing: set of rows
    nextRouteId,     \* primary-key generator of phone_routing
    lastResolve,     \* the last get_destination_number call and what it returned
    contacts,        \* table contacts
    deals,           \* table deals
    timeline_events, \* table timeline_events
    clock,           \* datetime.utcnow(): every reading is later than the one before
    handlers,        \* per request worker: where handle_incoming_call_event stands
    nEvents,         \* number of inbound call events taken up so far
    calls,           \* table calls
    tracking_sources,\* table tracking_sources
    config,          \* webhook.py module configuration: DEBUG_MODE, TWILIO_AUTH_TOKEN
    request,         \* the last webhook request: endpoint, call_sid, how far it got
    response,        \* the HTTP response to the last webhook request
    delivered,       \* per call_sid: the provider's requests answered so far
    ai_analysis,     \* table ai_analysis
    analysis,        \* the last process_call: what it found and how it ended
    payload,         \* a TwilioWebhookPayload
    record           \* the CallRecord to_call_record made of it, if it was called

routeVars == <<routes, nextRouteId, lastResolve>>
crmVars == <<contacts, deals, timeline_events, clock, handlers, nEvents>>
webhookVars == <<calls, tracking_sources, config, request, response, delivered>>
aiVars == <<ai_analysis, analysis>>
modelVars == <<payload, record>>

----------------------------------------------------------------------------
(***************************************************************************)
(* Routing resolver: DatabaseService.get_destination_number                *)
(***************************************************************************)

\* A plausible slip: the generic (NULL) campaign sorted first.
CampaignOrderLeq_NullsFirst(a, b) ==
    \/ a = NULL
    \/ (b # NULL /\ a <= b)

\* ORDER BY campaign ASC: PostgreSQL sorts NULL after every non-null value
\* when the order is ascending.
CampaignOrderLeq(a, b) ==
    \/ b = NULL
    \/ (a # NULL /\ a <= b)

\* The rows the query selects: tracking_number = t, is_active, and, only when
\* a (non-empty) campaign is given, campaign = c OR campaign IS NULL.
RouteQueryRows(rt, t, c) ==
    {r \in rt :
        /\ r.tracking_number = t
        /\ r.is_active
        /\ (c # NULL => (r.campaign = c \/ r.campaign = NULL))}

\* .order('campaign').limit(1): a row that no other selected row precedes.
\* Rows with equal campaign are in no defined order, so each may come first.
RouteQueryFirst(rt, t, c) ==
    {r \in RouteQueryRows(rt, t, c) :
        \A s \in RouteQueryRows(rt, t, c) : CampaignOrderLeq(r.campaign, s.campaign)}

\* The values get_destination_number(t, c) can return on route table rt.
get_destination_number(rt, t, c) ==
    IF RouteQueryRows(rt, t, c) = {}
    THEN {NoDestination}
    ELSE {r.destination_number : r \in RouteQueryFirst(rt, t, c)}

\* A DatabaseService method raises instead of returning.
Raised == "raise"

\* get_destination_number without its except clause.
DatabaseService_get_destination_number_NoExcept(rt, t, c, store_ok) ==
    IF store_ok THEN get_destination_number(rt, t, c) ELSE {Raised}

\* DatabaseService.get_destination_number as a whole: the query of
\* get_destination_number inside try, None when the store raises.
DatabaseService_get_destination_number(rt, t, c, store_ok) ==
    IF store_ok THEN get_destination_number(rt, t, c) ELSE {NoDestination}

----------------------------------------------------------------------------
(***************************************************************************)
(* CRM reconciler: services/crm.py                                         *)
(***************************************************************************)

\* A worker that is handling no event.
IdleHandler ==
    [pc |-> "idle", from_number |-> "P1", organization_id |-> NULL,
     contact_id |-> NULL, deal_id |-> NULL, old_stage |-> NULL,
     now |-> NULL, default_stage_id |-> NULL, lost_race |-> FALSE]

\* The CRM part of the state when the CRM is not exercised.
CrmIdle ==
    /\ contacts = {}
    /\ deals = {}
    /\ timeline_events = {}
    /\ clock = 1
    /\ handlers = [p \in Procs |-> IdleHandler]
    /\ nEvents = 0

\* No webhook request has been received.
NoRequest ==
    [endpoint |-> "none", call_sid |-> None, valid |-> FALSE, routed |-> FALSE,
     fault |-> "none"]

\* No webhook request has been answered.
NoResponse == [status |-> 0, document |-> "none", destination |-> None]

\* No process_call has run.  edited: the user set Call.tags since the last
\* run; rerun: an ai_analysis row of the call_sid was there when it started.
NoAnalysis ==
    [call_sid |-> None, result |-> "none", rerun |-> FALSE, edited |-> FALSE,
     after_edit |-> FALSE, tags_before |-> None, produced |-> <<>>,
     saved |-> FALSE]

\* to_call_record has not been called.
NoRecord == [raised |-> FALSE, status |-> <<>>, duration |-> 0, made |-> FALSE]

\* The payload models when they are not exercised.  A string whose letters
\* matter is a sequence of characters.
PayloadIdle ==
    /\ payload = [CallStatus |-> <<"r", "i", "n", "g", "i", "n", "g">>,
                  CallDuration |-> "0"]
    /\ record = NoRecord

\* The analysis part of the state when no analysis is run.
AiIdle ==
    /\ ai_analysis = {}
    /\ analysis = NoAnalysis

\* The webhook part of the state when the webhook is not exercised.
WebhookIdle ==
    /\ calls = {}
    /\ tracking_sources = {}
    /\ config = [DEBUG_MODE |-> FALSE, TWILIO_AUTH_TOKEN |-> TRUE]
    /\ request = NoRequest
    /\ response = NoResponse
    /\ delivered = [sid \in CallSids |-> {}]
    /\ AiIdle
    /\ PayloadIdle

----------------------------------------------------------------------------
(***************************************************************************)
(* Route administration (dashboard, app.py) and resolution.                *)
(***************************************************************************)

\* app.py "Adicionar Rota": insert into phone_routing.
AddRoute(t, d, c, o) ==
    /\ nextRouteId <= MaxRoutes
    /\ routes' = routes \cup
          {[id |-> nextRouteId, tracking_number |-> t, destination_number |-> d,
            campaign |-> c, is_active |-> TRUE, organization_id |-> o]}
    /\ nextRouteId' = nextRouteId + 1
    /\ UNCHANGED <<lastResolve, crmVars, webhookVars, aiVars, modelVars>>

\* app.py "Desativar"/"Ativar": update is_active of one route.
SetRouteActive(r, b) ==
    /\ r \in routes
    /\ r.is_active # b
    /\ routes' = (routes \ {r}) \cup {[r EXCEPT !.is_active = b]}
    /\ UNCHANGED <<nextRouteId, lastResolve, crmVars, webhookVars, aiVars, modelVars>>

\* app.py "Deletar": delete one route.
DeleteRoute(r) ==
    /\ r \in routes
    /\ routes' = routes \ {r}
    /\ UNCHANGED <<nextRouteId, lastResolve, crmVars, webhookVars, aiVars, modelVars>>

\* No call of get_destination_number yet.
NoResolve ==
    [tracking_number |-> "T1", campaign |-> NULL, result |-> NoDestination,
     store_ok |-> TRUE, active |-> FALSE]

\* One call of get_destination_number(t, c); c = NULL is "no campaign".
\* active notes whether t had an active route when it was called.
Resolve(t, c) ==
    /\ \E d \in get_destination_number(routes, t, c) :
          lastResolve' = [tracking_number |-> t, campaign |-> c, result |-> d,
                          store_ok |-> TRUE,
                          active |-> \E r \in routes :
                                        r.tracking_number = t /\ r.is_active]
    /\ UNCHANGED <<routes, nextRouteId, crmVars, webhookVars, aiVars, modelVars>>

\* One call of get_destination_number(t, c) that finds the store failing.
ResolveOutage(t, c) ==
    /\ \E d \in DatabaseService_get_destination_number(routes, t, c, FALSE) :
          lastResolve' = [tracking_number |-> t, campaign |-> c, result |-> d,
                          store_ok |-> FALSE,
                          active |-> \E r \in routes :
                                        r.tracking_number = t /\ r.is_active]
    /\ UNCHANGED <<routes, nextRouteId, crmVars, webhookVars, aiVars, modelVars>>

RouteInit ==
    /\ routes = {}
    /\ nextRouteId = 1
    /\ lastResolve = NoResolve
    /\ CrmIdle
    /\ WebhookIdle

RouteNext ==
    \/ \E t \in TrackingNumbers, d \in Destinations, c \in Campaigns \cup {NULL}, o \in Orgs :
          AddRoute(t, d, c, o)
    \/ \E r \in routes, b \in BOOLEAN : SetRouteActive(r, b)
    \/ \E r \in routes : DeleteRoute(r)
    \/ \E t \in TrackingNumbers, c \in Campaigns \cup {NULL} : Resolve(t, c)
    \/ \E t \in TrackingNumbers, c \in Campaigns \cup {NULL} : ResolveOutage(t, c)

vars == <<routeVars, crmVars, webhookVars, aiVars, modelVars>>

SpecRoute == RouteInit /\ [][RouteNext]_vars

----------------------------------------------------------------------------
(***************************************************************************)
(* Routing claims                                                          *)
(***************************************************************************)

\* The active routes of tracking number t whose campaign column is c
\* (c = NULL: the generic routes).
ActiveRoutes(t, c) ==
    {r \in routes : r.tracking_number = t /\ r.is_active /\ r.campaign = c}

\* C1: whenever get_destination_number(T, C) is called with a campaign C for
\* which an active route (T, C) exists, it returns the destination of such a
\* route, whether or not an active generic route of T exists as well.
C1_SpecificBeatsGeneric ==
    [][\A t \in TrackingNumbers, c \in Campaigns :
          (Resolve(t, c) /\ ActiveRoutes(t, c) # {})
             => lastResolve'.result \in
                   {r.destination_number : r \in ActiveRoutes(t, c)}]_vars

\* C1 witness: a campaign-specific and a generic active route with different
\* destinations exist, and the resolution returned the specific one.
C1_Witness ==
    /\ lastResolve.campaign # NULL
    /\ \E r \in ActiveRoutes(lastResolve.tracking_number, lastResolve.campaign),
          g \in ActiveRoutes(lastResolve.tracking_number, NULL) :
            /\ r.destination_number # g.destination_number
            /\ lastResolve.result = r.destination_number
            /\ \A s \in routes : s \in {r, g}

\* C2: whenever get_destination_number(T, C) is called with no campaign, or
\* with a campaign that no active route of T carries, and T has an active
\* generic route, it returns the destination of an active generic route of
\* T, never the destination of an active route of another campaign.
C2_FallbackIsGeneric ==
    [][\A t \in TrackingNumbers, c \in Campaigns \cup {NULL} :
          (/\ Resolve(t, c)
           /\ (c = NULL \/ ActiveRoutes(t, c) = {})
           /\ ActiveRoutes(t, NULL) # {})
             => lastResolve'.result \in
                   {r.destination_number : r \in ActiveRoutes(t, NULL)}]_vars

\* C12: get_destination_number never raises, and it returns None for a
\* tracking number without an active route (no route at all, or only
\* inactive ones) and whenever the store query fails.
C12_NotFoundNeverRaises ==
    \A t \in TrackingNumbers, c \in Campaigns \cup {NULL}, store_ok \in BOOLEAN :
        LET found == DatabaseService_get_destination_number(routes, t, c, store_ok)
        IN  /\ Raised \notin found
            /\ (~store_ok \/ ~\E r \in routes : r.tracking_number = t /\ r.is_active)
                  => found = {NoDestination}

\* C12 witness: a number whose routes were all inactive has been resolved to
\* None, or a number with an active route has been while the store failed.
C12_Witness ==
    /\ lastResolve.result = NoDestination
    /\ \/ /\ lastResolve.store_ok /\ ~lastResolve.active
          /\ \E r \in routes : r.tracking_number = lastResolve.tracking_number
          /\ \A r \in routes : r.tracking_number = lastResolve.tracking_number
                                  => ~r.is_active
       \/ ~lastResolve.store_ok /\ lastResolve.active

----------------------------------------------------------------------------
(***************************************************************************)
(* CRM reconciler, step by step.  Each operator below is one store round   *)
(* trip of CRMService.handle_incoming_call_event: from a store st and the  *)
(* worker's local state l it gives the set of possible outcomes [st, l].   *)
(***************************************************************************)

Store ==
    [contacts |-> contacts, deals |-> deals,
     timeline_events |-> timeline_events, clock |-> clock]

Outcome(st, l) == [st |-> st, l |-> l]

\* datetime.utcnow() was read: the next reading is later.
Tick(st) == [st EXCEPT !.clock = @ + 1]

\* Unique constraint of table contacts on phone_number, which the create
\* path answers with "duplicate key" (SQLSTATE 23505).
contacts_phone_number_key(st, row) ==
    \E c \in st.contacts : c.phone_number = row.phone_number

\* handle_incoming_call_event has returned: the worker keeps only how it ended.
Rest(how) == [IdleHandler EXCEPT !.pc = how]

\* handle_incoming_call_event, lines 15-20: an event without organization_id
\* is skipped.
take_event(l, phone, org) ==
    IF org = NULL
    THEN Rest("skipped")
    ELSE [IdleHandler EXCEPT
            !.from_number = phone,
            !.organization_id = org,
            !.pc = "select_contact"]

\* _get_or_create_contact, lines 37-45: look the contact up by phone number.
select_contact(st, l) ==
    LET rows == {c \in st.contacts : c.phone_number = l.from_number}
    IN  IF rows # {}
        THEN {Outcome(st, [l EXCEPT
                 !.contact_id = c.id,
                 !.pc = IF c.organization_id = NULL
                        THEN "adopt_contact" ELSE "select_open_deal"]) : c \in rows}
        ELSE {Outcome(st, [l EXCEPT !.pc = "insert_contact"])}

\* _get_or_create_contact, lines 43-44: a legacy contact without organization
\* gets the organization of the event.
adopt_contact(st, l) ==
    {Outcome(
        [st EXCEPT !.contacts =
            {IF c.id = l.contact_id
             THEN [c EXCEPT !.organization_id = l.organization_id] ELSE c : c \in @}],
        [l EXCEPT !.pc = "select_open_deal"])}

\* The row _get_or_create_contact inserts, lines 49-56.
new_contact(st, l) ==
    [id |-> Cardinality(st.contacts) + 1,
     phone_number |-> l.from_number,
     name |-> <<"Lead", l.from_number>>,
     organization_id |-> l.organization_id,
     created_at |-> st.clock,
     last_activity_at |-> st.clock,
     is_manual |-> FALSE]

\* _get_or_create_contact, lines 48-63: insert; on duplicate key go and fetch.
insert_contact(st, l) ==
    IF contacts_phone_number_key(st, new_contact(st, l))
    THEN {Outcome(st, [l EXCEPT !.lost_race = TRUE, !.pc = "refetch_contact"])}
    ELSE {Outcome(
            Tick([st EXCEPT !.contacts = @ \cup {new_contact(st, l)}]),
            [l EXCEPT !.contact_id = new_contact(st, l).id,
                      !.pc = "select_open_deal"])}

\* A plausible slip: the duplicate-key error is not recognised, and the
\* create path returns None.
refetch_contact_GiveUp(st, l) == {Outcome(st, Rest("failed"))}

\* _get_or_create_contact, lines 64-65, and handle_incoming_call_event, lines
\* 25-30: fetch the row that won the race; without one the event fails.
refetch_contact(st, l) ==
    LET rows == {c \in st.contacts : c.phone_number = l.from_number}
    IN  IF rows # {}
        THEN {Outcome(st, [l EXCEPT !.contact_id = c.id,
                                    !.pc = "select_open_deal"]) : c \in rows}
        ELSE {Outcome(st, Rest("failed"))}

\* The lookup of the deal without its filter on status.
select_open_deal_AnyStatus(st, l) ==
    LET rows == {d \in st.deals : d.contact_id = l.contact_id}
    IN  IF rows # {}
        THEN {Outcome(Tick(st), [l EXCEPT
                 !.deal_id = d.id, !.old_stage = d.stage_id,
                 !.now = st.clock, !.pc = "get_default_stage"]) : d \in rows}
        ELSE {Outcome(Tick(st), [l EXCEPT
                 !.now = st.clock, !.pc = "get_default_stage"])}

\* _upsert_deal_from_call, lines 72-78 and 81-84: the OPEN deals of the
\* contact, the first of them if any, and the time of the event.
select_open_deal(st, l) ==
    LET rows == {d \in st.deals : d.contact_id = l.contact_id /\ d.status = "OPEN"}
    IN  IF rows # {}
        THEN {Outcome(Tick(st), [l EXCEPT
                 !.deal_id = d.id, !.old_stage = d.stage_id,
                 !.now = st.clock, !.pc = "get_default_stage"]) : d \in rows}
        ELSE {Outcome(Tick(st), [l EXCEPT
                 !.now = st.clock, !.pc = "get_default_stage"])}

\* _get_default_stage_id, lines 110-114: a stage flagged is_default, else any
\* stage, else None.
get_default_stage_id(stages) ==
    IF \E s \in stages : s.is_default
    THEN {s.id : s \in {x \in stages : x.is_default}}
    ELSE IF stages # {} THEN {s.id : s \in stages} ELSE {NULL}

\* _upsert_deal_from_call, lines 79-81: read the default stage and branch.
get_default_stage(st, l) ==
    {Outcome(st, [l EXCEPT
        !.default_stage_id = sid,
        !.pc = IF l.deal_id # NULL THEN "update_deal" ELSE "insert_deal"])
     : sid \in get_default_stage_id(PipelineStages)}

\* update_deal that reports a move to the inbox on every call.
update_deal_AlwaysMoved(st, l) ==
    {Outcome(
        [st EXCEPT !.deals =
            {IF d.id = l.deal_id
             THEN [d EXCEPT !.last_activity_at = l.now,
                            !.stage_id = l.default_stage_id]
             ELSE d : d \in @}],
        [l EXCEPT !.pc = "event_moved"])}

\* _upsert_deal_from_call, lines 86-89: back to the default stage, refreshed.
update_deal(st, l) ==
    {Outcome(
        [st EXCEPT !.deals =
            {IF d.id = l.deal_id
             THEN [d EXCEPT !.last_activity_at = l.now,
                            !.stage_id = l.default_stage_id]
             ELSE d : d \in @}],
        [l EXCEPT !.pc = IF l.old_stage # l.default_stage_id
                         THEN "event_moved" ELSE "event_call"])}

\* _add_timeline_event as an upsert keyed by deal: the event of a deal
\* replaces the one before.
add_timeline_event_Replacing(st, contact_id, deal_id, event_type, desc, metadata) ==
    Tick([st EXCEPT !.timeline_events =
        {e \in @ : e.deal_id # deal_id} \cup
        {[id |-> Cardinality(st.timeline_events) + 1,
          contact_id |-> contact_id, deal_id |-> deal_id,
          event_type |-> event_type, description |-> desc,
          metadata |-> metadata, created_at |-> st.clock]}])

\* _add_timeline_event, lines 116-125.
add_timeline_event(st, contact_id, deal_id, event_type, desc, metadata) ==
    Tick([st EXCEPT !.timeline_events = @ \cup
        {[id |-> Cardinality(st.timeline_events) + 1,
          contact_id |-> contact_id, deal_id |-> deal_id,
          event_type |-> event_type, description |-> desc,
          metadata |-> metadata, created_at |-> st.clock]}])

\* The call_data the worker carries.
call_data(l) ==
    [from_number |-> l.from_number, organization_id |-> l.organization_id]

\* _upsert_deal_from_call, line 90.
event_moved(st, l) ==
    {Outcome(
        add_timeline_event(st, l.contact_id, l.deal_id, "SYSTEM",
                           "Movido para Inbox (Nova Interacao)", <<>>),
        [l EXCEPT !.pc = "event_call"])}

\* _upsert_deal_from_call, line 92.
event_call(st, l) ==
    {Outcome(
        add_timeline_event(st, l.contact_id, l.deal_id, "CALL_INBOUND",
                           "Nova chamada recebida", call_data(l)),
        Rest("done"))}

\* A plausible slip: the new deal is filed without the default stage.
new_deal_NoStage(st, l) ==
    [id |-> Cardinality(st.deals) + 1,
     contact_id |-> l.contact_id,
     stage_id |-> NULL,
     title |-> <<"Ligacao de", l.from_number>>,
     status |-> "OPEN",
     source |-> "voice",
     organization_id |-> l.organization_id,
     last_activity_at |-> l.now]

\* The row _upsert_deal_from_call inserts, lines 96-104.
new_deal(st, l) ==
    [id |-> Cardinality(st.deals) + 1,
     contact_id |-> l.contact_id,
     stage_id |-> l.default_stage_id,
     title |-> <<"Ligacao de", l.from_number>>,
     status |-> "OPEN",
     source |-> "voice",
     organization_id |-> l.organization_id,
     last_activity_at |-> l.now]

\* _upsert_deal_from_call, lines 105-107.
insert_deal(st, l) ==
    {Outcome(
        [st EXCEPT !.deals = @ \cup {new_deal(st, l)}],
        [l EXCEPT !.deal_id = new_deal(st, l).id, !.pc = "event_created"])}

\* _upsert_deal_from_call, line 108.
event_created(st, l) ==
    {Outcome(
        add_timeline_event(st, l.contact_id, l.deal_id, "CALL_INBOUND",
                           "Lead criado via telefone", call_data(l)),
        Rest("done"))}

\* A worker that stands at none of the steps holds no event: it has not
\* started, or handle_incoming_call_event has returned (skipped, failed,
\* caught, done) or has let an exception out (raised).
Resting == {"idle", "skipped", "failed", "caught", "raised", "done"}

\* The next round trip of a worker, by where it stands.
HandlerStep(st, l) ==
    CASE l.pc = "select_contact"    -> select_contact(st, l)
      [] l.pc = "adopt_contact"     -> adopt_contact(st, l)
      [] l.pc = "insert_contact"    -> insert_contact(st, l)
      [] l.pc = "refetch_contact"   -> refetch_contact(st, l)
      [] l.pc = "select_open_deal"  -> select_open_deal(st, l)
      [] l.pc = "get_default_stage" -> get_default_stage(st, l)
      [] l.pc = "update_deal"       -> update_deal(st, l)
      [] l.pc = "event_moved"       -> event_moved(st, l)
      [] l.pc = "event_call"        -> event_call(st, l)
      [] l.pc = "insert_deal"       -> insert_deal(st, l)
      [] l.pc = "event_created"     -> event_created(st, l)
      [] OTHER                      -> {}

\* handle_incoming_call_event run from start to end with no other request in
\* between: the outcomes it can end in.
RECURSIVE RunHandler(_, _)
RunHandler(st, l) ==
    IF l.pc \in Resting
    THEN {Outcome(st, l)}
    ELSE UNION {RunHandler(o.st, o.l) : o \in HandlerStep(st, l)}

handle_incoming_call_event(st, phone, org) ==
    RunHandler(st, take_event(IdleHandler, phone, org))

----------------------------------------------------------------------------
(***************************************************************************)
(* CRM actions: two request workers whose store round trips interleave,    *)
(* and the dashboard's manual overrides of a deal.                         *)
(***************************************************************************)

\* One round trip of worker p.
Advance(p) ==
    /\ \E o \in HandlerStep(Store, handlers[p]) :
          /\ contacts' = o.st.contacts
          /\ deals' = o.st.deals
          /\ timeline_events' = o.st.timeline_events
          /\ clock' = o.st.clock
          /\ handlers' = [handlers EXCEPT ![p] = o.l]
    /\ UNCHANGED <<nEvents, routeVars, webhookVars, aiVars, modelVars>>

\* handle_incoming_call_event is entered with an event; the workers being
\* alike, the event goes to the first one that is free.
TakeEvent(p, phone, org) ==
    /\ handlers[p].pc \in Resting
    /\ \A q \in Procs : q < p => handlers[q].pc \notin Resting
    /\ nEvents < MaxEvents
    /\ nEvents' = nEvents + 1
    /\ handlers' = [handlers EXCEPT ![p] = take_event(handlers[p], phone, org)]
    /\ UNCHANGED <<contacts, deals, timeline_events, clock, routeVars, webhookVars, aiVars, modelVars>>

SelectContact(p) ==
    /\ handlers[p].pc = "select_contact"
    /\ Advance(p)
AdoptContact(p) ==
    /\ handlers[p].pc = "adopt_contact"
    /\ Advance(p)
InsertContact(p) ==
    /\ handlers[p].pc = "insert_contact"
    /\ Advance(p)
RefetchContact(p) ==
    /\ handlers[p].pc = "refetch_contact"
    /\ Advance(p)
SelectOpenDeal(p) ==
    /\ handlers[p].pc = "select_open_deal"
    /\ Advance(p)
GetDefaultStage(p) ==
    /\ handlers[p].pc = "get_default_stage"
    /\ Advance(p)
UpdateDeal(p) ==
    /\ handlers[p].pc = "update_deal"
    /\ Advance(p)
EventMoved(p) ==
    /\ handlers[p].pc = "event_moved"
    /\ Advance(p)
EventCall(p) ==
    /\ handlers[p].pc = "event_call"
    /\ Advance(p)
InsertDeal(p) ==
    /\ handlers[p].pc = "insert_deal"
    /\ Advance(p)
EventCreated(p) ==
    /\ handlers[p].pc = "event_created"
    /\ Advance(p)

\* Dashboard: a deal card is dragged to another stage.
StageDrag(d, s) ==
    /\ d \in deals
    /\ d.status = "OPEN"
    /\ d.stage_id # s.id
    /\ deals' = (deals \ {d}) \cup {[d EXCEPT !.stage_id = s.id]}
    /\ UNCHANGED <<contacts, timeline_events, clock, handlers, nEvents, routeVars,
                   webhookVars, aiVars, modelVars>>

\* A contact of the time before organizations, still without one.
LegacyContact ==
    [id |-> 1, phone_number |-> "P1", name |-> <<"Lead", "P1">>,
     organization_id |-> NULL, created_at |-> 0, last_activity_at |-> 0,
     is_manual |-> FALSE]

CrmInit ==
    /\ contacts = {LegacyContact}
    /\ deals = {}
    /\ timeline_events = {}
    /\ clock = 1
    /\ handlers = [p \in Procs |-> IdleHandler]
    /\ nEvents = 0
    /\ routes = {}
    /\ nextRouteId = 1
    /\ lastResolve = NoResolve
    /\ WebhookIdle

CrmNext ==
    \/ \E p \in Procs, phone \in Phones, org \in Orgs \cup {NULL} : TakeEvent(p, phone, org)
    \/ \E p \in Procs : SelectContact(p)
    \/ \E p \in Procs : AdoptContact(p)
    \/ \E p \in Procs : InsertContact(p)
    \/ \E p \in Procs : RefetchContact(p)
    \/ \E p \in Procs : SelectOpenDeal(p)
    \/ \E p \in Procs : GetDefaultStage(p)
    \/ \E p \in Procs : UpdateDeal(p)
    \/ \E p \in Procs : EventMoved(p)
    \/ \E p \in Procs : EventCall(p)
    \/ \E p \in Procs : InsertDeal(p)
    \/ \E p \in Procs : EventCreated(p)
    \/ \E d \in deals, s \in PipelineStages : StageDrag(d, s)

SpecCRM == CrmInit /\ [][CrmNext]_vars

\* A deal of the legacy contact that was closed before the first call of the
\* model, in a stage that is not the default one.
ClosedDeal ==
    [id |-> 1,
     contact_id |-> LegacyContact.id,
     stage_id |-> 2,
     title |-> <<"Ligacao de", LegacyContact.phone_number>>,
     status |-> "CLOSED",
     source |-> "voice",
     organization_id |-> NULL,
     last_activity_at |-> 0]

CrmClosedInit ==
    /\ contacts = {LegacyContact}
    /\ deals = {ClosedDeal}
    /\ timeline_events = {}
    /\ clock = 1
    /\ handlers = [p \in Procs |-> IdleHandler]
    /\ nEvents = 0
    /\ routes = {}
    /\ nextRouteId = 1
    /\ lastResolve = NoResolve
    /\ WebhookIdle

\* The reconciler over a store that holds a CLOSED deal.
SpecCrmClosed == CrmClosedInit /\ [][CrmNext]_vars

\* handle_incoming_call_event without its try: the error of the store
\* reaches the caller.
store_error_Propagating(st, l) == {Outcome(st, Rest("raised"))}

\* A store round trip raises.  The insert of the contact has a try of its
\* own (lines 47-67): an error that is no duplicate key makes
\* _get_or_create_contact return None, and the handler logs and returns
\* (lines 29-30).  Everywhere else the error travels up to the except clause
\* of handle_incoming_call_event (lines 32-33), which logs and returns.  What
\* the earlier round trips wrote stays written.
store_error(st, l) ==
    IF l.pc = "insert_contact"
    THEN {Outcome(st, Rest("failed"))}
    ELSE {Outcome(st, Rest("caught"))}

\* The store fails on the round trip worker p is about to make.
StoreFailure(p) ==
    /\ handlers[p].pc \notin Resting
    /\ \E o \in store_error(Store, handlers[p]) :
          /\ contacts' = o.st.contacts
          /\ deals' = o.st.deals
          /\ timeline_events' = o.st.timeline_events
          /\ clock' = o.st.clock
          /\ handlers' = [handlers EXCEPT ![p] = o.l]
    /\ UNCHANGED <<nEvents, routeVars, webhookVars, aiVars, modelVars>>

CrmOutageNext ==
    \/ CrmNext
    \/ \E p \in Procs : StoreFailure(p)

\* The reconciler over a store that may fail on any round trip.
SpecCrmOutage == CrmInit /\ [][CrmOutageNext]_vars

----------------------------------------------------------------------------
(***************************************************************************)
(* CRM claims.  An inbound call event is one that carries the organization *)
(* of the route that was dialed; an event without one is skipped.          *)
(***************************************************************************)

DefaultStageId == CHOOSE sid \in get_default_stage_id(PipelineStages) : TRUE

OpenDeals(ds, contact_id) ==
    {d \in ds : d.contact_id = contact_id /\ d.status = "OPEN"}

\* C3: in every reachable store, for every contact that has an OPEN deal,
\* handling one inbound call event from the contact's number leaves exactly
\* one OPEN deal of that contact, in the default stage and with a
\* last_activity_at later than that of every OPEN deal it had before.
C3_OpenDealResurfaces ==
    \A c \in contacts, org \in Orgs :
        OpenDeals(deals, c.id) # {} =>
            \A o \in handle_incoming_call_event(Store, c.phone_number, org) :
                /\ Cardinality(OpenDeals(o.st.deals, c.id)) = 1
                /\ \A d \in OpenDeals(o.st.deals, c.id) :
                      /\ d.stage_id = DefaultStageId
                      /\ \A b \in OpenDeals(deals, c.id) :
                            d.last_activity_at > b.last_activity_at

\* C4: in every reachable store, for every phone number without a contact,
\* handling one inbound call event from it adds exactly one contact (that
\* number, is_manual false), exactly one deal (OPEN, default stage, source
\* voice, of that contact) and exactly one timeline event (CALL_INBOUND, of
\* that contact and deal), and changes no other row.
C4_FirstCallCreatesLead ==
    \A phone \in Phones, org \in Orgs :
        (\A c \in contacts : c.phone_number # phone) =>
            \A o \in handle_incoming_call_event(Store, phone, org) :
                /\ o.l.pc = "done"
                /\ contacts \subseteq o.st.contacts
                /\ deals \subseteq o.st.deals
                /\ timeline_events \subseteq o.st.timeline_events
                /\ \E c \in o.st.contacts \ contacts,
                      d \in o.st.deals \ deals,
                      e \in o.st.timeline_events \ timeline_events :
                        /\ o.st.contacts \ contacts = {c}
                        /\ o.st.deals \ deals = {d}
                        /\ o.st.timeline_events \ timeline_events = {e}
                        /\ c.phone_number = phone /\ c.is_manual = FALSE
                        /\ d.contact_id = c.id /\ d.status = "OPEN"
                        /\ d.stage_id = DefaultStageId /\ d.source = "voice"
                        /\ e.event_type = "CALL_INBOUND"
                        /\ e.contact_id = c.id /\ e.deal_id = d.id

\* C4 witness: the first event, from the number without a contact, has been
\* handled: its contact, one OPEN voice deal in the default stage and one
\* CALL_INBOUND event are all there is besides the contact that was there.
C4_Witness ==
    /\ nEvents = 1
    /\ handlers[1].pc = "done"
    /\ \E c \in contacts, d \in deals, e \in timeline_events :
          /\ contacts = {LegacyContact, c}
          /\ deals = {d}
          /\ timeline_events = {e}
          /\ c.phone_number = "P2" /\ c.is_manual = FALSE
          /\ d.contact_id = c.id /\ d.status = "OPEN"
          /\ d.stage_id = DefaultStageId /\ d.source = "voice"
          /\ e.event_type = "CALL_INBOUND" /\ e.deal_id = d.id

\* C5: in every reachable state there is at most one OPEN deal per contact
\* and organization.
C5_AtMostOneOpenDeal ==
    \A c \in contacts, org \in Orgs :
        Cardinality({d \in OpenDeals(deals, c.id) : d.organization_id = org}) <= 1

\* The steps of a worker that has got its contact.
DealSteps ==
    {"select_open_deal", "get_default_stage", "update_deal", "event_moved",
     "event_call", "insert_deal", "event_created"}

\* C6: however the round trips of two events from one number interleave,
\* there is at most one contact row per phone number, a worker that has
\* reached the deal step holds the contact row of the caller's number (also
\* the worker that lost the insert race), and no worker ends without a
\* contact.
C6_ContactRaceRefetches ==
    /\ \A c1, c2 \in contacts : c1.phone_number = c2.phone_number => c1 = c2
    /\ \A p \in Procs :
          /\ handlers[p].pc # "failed"
          /\ handlers[p].pc \in DealSteps =>
                \E c \in contacts :
                    /\ c.id = handlers[p].contact_id
                    /\ c.phone_number = handlers[p].from_number

\* C6 witness: both workers handle an event from the number that had no
\* contact; worker 2 lost the insert race, fetched the row of worker 1 and
\* stands at the deal step with it.
C6_Witness ==
    /\ handlers[2].lost_race
    /\ handlers[1].pc \in DealSteps
    /\ handlers[2].pc \in DealSteps
    /\ handlers[1].from_number = "P2"
    /\ handlers[2].from_number = "P2"
    /\ handlers[1].contact_id = handlers[2].contact_id
    /\ Cardinality({c \in contacts : c.phone_number = "P2"}) = 1

\* The organization of the contact (deal) with the given id, in a table.
OrgOfRow(table, id) ==
    {r.organization_id : r \in {x \in table : x.id = id}}

\* C7: a round trip of a worker that handles an event of organization B
\* changes no contact and no deal of another organization, hands the worker
\* no contact of another organization (a legacy contact has none), and adds
\* no deal or timeline event that refers to a contact or deal of another
\* organization.
C7_TenantIsolation ==
    [][\A p \in Procs :
          (handlers[p].pc \notin Resting /\ handlers'[p] # handlers[p]) =>
            LET org == handlers[p].organization_id IN
            /\ \A c \in contacts : c.organization_id \notin {org, NULL} => c \in contacts'
            /\ \A d \in deals : d.organization_id # org => d \in deals'
            /\ handlers'[p].contact_id # NULL =>
                  OrgOfRow(contacts', handlers'[p].contact_id) \subseteq {org, NULL}
            /\ \A d \in deals' \ deals :
                  OrgOfRow(contacts', d.contact_id) \subseteq {org}
            /\ \A e \in timeline_events' \ timeline_events :
                  /\ OrgOfRow(contacts', e.contact_id) \subseteq {org}
                  /\ OrgOfRow(deals', e.deal_id) \subseteq {org}]_vars

----------------------------------------------------------------------------
(***************************************************************************)
(* Telephony webhook (webhook.py) and call ledger (services/database.py).  *)
(* A request is a record of the parameters the handler reads; a parameter  *)
(* that is absent is None.  Each request is handled in one step.           *)
(***************************************************************************)

\* What the provider reports about a call once it is over.
FinalStatus == "completed"
CallDuration == "30"
RecordingUrl == "https://api.twilio.com/Recordings/RE1"
RecordingSid == "RE1"

\* Python int() of a parameter: digits parse, anything else raises ValueError.
Digits == [v \in {"0", "30"} |-> IF v = "0" THEN 0 ELSE 30]

int(v) ==
    IF v \in DOMAIN Digits
    THEN [raised |-> FALSE, value |-> Digits[v]]
    ELSE [raised |-> TRUE, value |-> 0]

\* recording_url + '.mp3'
Mp3(url) == <<url, ".mp3">>

\* validate_twilio_request.  signature_valid is the verdict of
\* RequestValidator.validate on the request's X-Twilio-Signature header.
validate_twilio_request(cfg, req) ==
    IF cfg.DEBUG_MODE /\ req.remote_addr \in {"127.0.0.1", "localhost", "::1"}
    THEN TRUE
    ELSE IF ~cfg.TWILIO_AUTH_TOKEN
    THEN TRUE
    ELSE req.signature_valid

\* The view functions' return values and what Flask makes of them.  The
\* helpers _create_no_destination_response and _create_error_response return
\* a (Response, 200) tuple, so a view that returns "helper(), status" hands
\* Flask a tuple whose first element is a tuple: Flask accepts no such
\* return value, raises TypeError and answers 500.
Response(document, destination) ==
    [kind |-> "Response", document |-> document, destination |-> destination]

jsonify(document) == Response(document, None)

_create_forward_response(destination) == Response("forward", destination)

_create_no_destination_response ==
    [kind |-> "tuple", document |-> "decline", destination |-> None]

_create_error_response ==
    [kind |-> "tuple", document |-> "error", destination |-> None]

make_response(rv, status) ==
    IF rv.kind = "Response"
    THEN [status |-> status, document |-> rv.document, destination |-> rv.destination]
    ELSE [status |-> 500, document |-> "InternalServerError", destination |-> None]

\* get_or_create_tracking_source: the rows its query selects.
TrackingQueryRows(ts, data) ==
    {r \in ts :
        /\ r.tracking_number = data.tracking_number
        /\ IF data.gclid # None
           THEN r.gclid = data.gclid
           ELSE IF data.utm_campaign # NULL
           THEN r.utm_campaign = data.utm_campaign
           ELSE TRUE}

\* get_or_create_tracking_source: limit(1) without an order takes any row of
\* the query.  The result is reduced to the id, all that the caller reads.
get_or_create_tracking_source(ts, data, now) ==
    LET rows == TrackingQueryRows(ts, data)
        new_source == [id |-> Cardinality(ts) + 1,
                       tracking_number |-> data.tracking_number,
                       utm_source |-> data.utm_source,
                       utm_campaign |-> data.utm_campaign,
                       gclid |-> data.gclid,
                       created_at |-> now,
                       last_call_at |-> now]
    IN  IF rows # {}
        THEN {[tracking_sources |->
                  (ts \ {r}) \cup {[r EXCEPT !.last_call_at = now]},
               result |-> r.id] : r \in rows}
        ELSE {[tracking_sources |-> ts \cup {new_source},
               result |-> new_source.id]}

\* Table calls: call_sid is unique.
calls_call_sid_key(cs, row) == \A c \in cs : c.call_sid # row.call_sid

\* The row an insert of the dict data makes: the columns it does not name are null.
CallRow(data) ==
    [call_sid |-> data.call_sid,
     from_number |-> data.from_number,
     to_number |-> data.to_number,
     destination_number |-> data.destination_number,
     status |-> data.status,
     campaign |-> data.campaign,
     tracking_source_id |-> data.tracking_source_id,
     created_at |-> data.created_at,
     organization_id |-> IF "organization_id" \in DOMAIN data
                         THEN data.organization_id ELSE NULL,
     duration |-> NULL,
     recording_url |-> None,
     recording_sid |-> None,
     recording_duration |-> NULL,
     tags |-> None,
     updated_at |-> NULL]

\* insert_call with no handling of its own for a call_sid that is there.
insert_call_Blind(cs, data) ==
    [calls |-> cs \cup {CallRow(data)}, result |-> data.call_sid]

\* insert_call: a plain insert; whatever the store raises is caught and None
\* is returned.
insert_call(cs, data) ==
    IF ~({"call_sid", "from_number", "to_number"} \subseteq DOMAIN data)
    THEN [calls |-> cs, result |-> None]
    ELSE IF ~calls_call_sid_key(cs, CallRow(data))
    THEN [calls |-> cs, result |-> None]
    ELSE [calls |-> cs \cup {CallRow(data)}, result |-> data.call_sid]

\* update_call_status that writes the reported duration whatever it is.
update_call_status_AnyDuration(cs, call_sid, status, duration, now) ==
    {IF c.call_sid = call_sid
     THEN [c EXCEPT !.status = status,
                    !.updated_at = now,
                    !.duration = duration]
     ELSE c : c \in cs}

\* update_call_status: update ... where call_sid = call_sid.
update_call_status(cs, call_sid, status, duration, now) ==
    {IF c.call_sid = call_sid
     THEN [c EXCEPT !.status = status,
                    !.updated_at = now,
                    !.duration = IF duration > 0 THEN duration ELSE @]
     ELSE c : c \in cs}

\* update_call_recording: update ... where call_sid = call_sid.
update_call_recording(cs, call_sid, recording_url, recording_sid, recording_duration, now) ==
    {IF c.call_sid = call_sid
     THEN [c EXCEPT !.recording_url = recording_url,
                    !.recording_sid = recording_sid,
                    !.recording_duration = recording_duration,
                    !.updated_at = now]
     ELSE c : c \in cs}

\* The tables a store outage can hit during one webhook request.
Tables == {"phone_routing", "tracking_sources", "calls"}

\* DatabaseService.get_or_create_tracking_source as a whole: None (here
\* NULL, no id) when the store raises.
DatabaseService_get_or_create_tracking_source(ts, data, now, store_ok) ==
    IF store_ok
    THEN get_or_create_tracking_source(ts, data, now)
    ELSE {[tracking_sources |-> ts, result |-> NULL]}

\* DatabaseService.insert_call as a whole: None when the store raises.
DatabaseService_insert_call(cs, data, store_ok) ==
    IF store_ok THEN insert_call(cs, data) ELSE [calls |-> cs, result |-> None]

\* update_call_status without its except clause.
DatabaseService_update_call_status_NoExcept(cs, call_sid, status, duration, now, store_ok) ==
    IF store_ok
    THEN [calls |-> update_call_status(cs, call_sid, status, duration, now),
          result |-> "True"]
    ELSE [calls |-> cs, result |-> Raised]

\* DatabaseService.update_call_status as a whole: True after the update,
\* whether or not a row matched; False when the store raises.
DatabaseService_update_call_status(cs, call_sid, status, duration, now, store_ok) ==
    IF store_ok
    THEN [calls |-> update_call_status(cs, call_sid, status, duration, now),
          result |-> "True"]
    ELSE [calls |-> cs, result |-> "False"]

\* DatabaseService.update_call_recording as a whole.
DatabaseService_update_call_recording(cs, call_sid, recording_url, recording_sid, recording_duration, now, store_ok) ==
    IF store_ok
    THEN [calls |-> update_call_recording(cs, call_sid, recording_url, recording_sid,
                                          recording_duration, now),
          result |-> "True"]
    ELSE [calls |-> cs, result |-> "False"]

\* The store, the configuration and the time as a webhook request finds them.
WebStore ==
    [routes |-> routes, calls |-> calls, tracking_sources |-> tracking_sources,
     config |-> config, clock |-> clock]

\* request.values.get('CallSid', 'unknown')
CallSidOf(req) == IF req.CallSid = None THEN "unknown" ELSE req.CallSid

\* Step 5 of webhook_call with a failed insert treated as fatal.
register_call_Blocking(cs, data, store_ok) ==
    LET inserted == DatabaseService_insert_call(cs, data, store_ok)
    IN  [calls |-> inserted.calls, raised |-> inserted.result = None]

\* Step 5 of webhook_call: the Call row is inserted inside a try of its own,
\* whose except clause only logs; nothing reaches the outer except clause.
register_call(cs, data, store_ok) ==
    LET inserted == DatabaseService_insert_call(cs, data, store_ok)
    IN  [calls |-> inserted.calls, raised |-> FALSE]

\* webhook_call: the possible outcomes of one request.  The time moves on
\* with every section of the handler that reads datetime.utcnow().
webhook_call(st, req) ==
    LET call_sid == CallSidOf(req)
        call_status == IF req.CallStatus = None THEN "initiated" ELSE req.CallStatus
        tracked ==
            IF req.utm_source # None \/ req.utm_campaign # NULL \/ req.gclid # None
            THEN {[tracking_sources |-> o.tracking_sources, result |-> o.result,
                   clock |-> st.clock + 1] :
                  o \in DatabaseService_get_or_create_tracking_source(
                           st.tracking_sources,
                           [tracking_number |-> req.To,
                            utm_source |-> req.utm_source,
                            utm_campaign |-> IF req.utm_campaign # NULL
                                             THEN req.utm_campaign ELSE req.campaign,
                            gclid |-> req.gclid],
                           st.clock, req.fault # "tracking_sources")}
            ELSE {[tracking_sources |-> st.tracking_sources, result |-> NULL,
                   clock |-> st.clock]}
        inbound_call(destination, tr) ==
            [call_sid |-> call_sid,
             from_number |-> req.From,
             to_number |-> req.To,
             destination_number |-> destination,
             status |-> call_status,
             campaign |-> IF req.campaign # NULL THEN req.campaign ELSE req.utm_campaign,
             tracking_source_id |-> tr.result,
             created_at |-> tr.clock]
    IN  IF ~validate_twilio_request(st.config, req)
        THEN {[calls |-> st.calls, tracking_sources |-> st.tracking_sources,
               clock |-> st.clock,
               response |-> make_response(_create_error_response, 403)]}
        ELSE {IF destination \in {NoDestination, Raised}
              THEN [calls |-> st.calls, tracking_sources |-> tr.tracking_sources,
                    clock |-> tr.clock,
                    response |-> make_response(_create_no_destination_response, 200)]
              ELSE LET inserted == register_call(st.calls,
                                 inbound_call(destination, tr), req.fault # "calls")
                   IN  IF inserted.raised
                       THEN [calls |-> inserted.calls,
                             tracking_sources |-> tr.tracking_sources,
                             clock |-> tr.clock + 1,
                             response |-> make_response(_create_error_response, 500)]
                       ELSE [calls |-> inserted.calls,
                             tracking_sources |-> tr.tracking_sources,
                             clock |-> tr.clock + 1,
                             response |->
                                 make_response(_create_forward_response(destination), 200)]
              : tr \in tracked,
                destination \in DatabaseService_get_destination_number(
                                    st.routes, req.To, req.campaign,
                                    req.fault # "phone_routing")}

\* webhook_call_status
webhook_call_status(st, req) ==
    LET call_duration == IF req.CallDuration = None THEN "0" ELSE req.CallDuration
    IN  IF int(call_duration).raised
        THEN [calls |-> st.calls, clock |-> st.clock,
              response |-> make_response(jsonify("error"), 500)]
        ELSE [calls |-> DatabaseService_update_call_status(st.calls, req.CallSid,
                             req.CallStatus, int(call_duration).value, st.clock,
                             req.fault # "calls").calls,
              clock |-> st.clock + 1,
              response |-> make_response(jsonify("success"), 200)]

\* webhook_recording
webhook_recording(st, req) ==
    LET recording_duration ==
            IF req.RecordingDuration = None THEN "0" ELSE req.RecordingDuration
    IN  IF req.RecordingUrl = None \/ int(recording_duration).raised
        THEN [calls |-> st.calls, clock |-> st.clock,
              response |-> make_response(jsonify("error"), 500)]
        ELSE [calls |-> DatabaseService_update_call_recording(st.calls, req.CallSid,
                             Mp3(req.RecordingUrl), req.RecordingSid,
                             int(recording_duration).value, st.clock,
                             req.fault # "calls").calls,
              clock |-> st.clock + 1,
              response |-> make_response(jsonify("success"), 200)]

\* The requests that are sent to the three endpoints.  fault names the table
\* whose store requests fail while the request is handled, if any.
CallRequests ==
    {req \in [CallSid : CallSids \cup {None},
              From : {"P1"},
              To : TrackingNumbers,
              CallStatus : {"ringing"},
              campaign : {NULL, 2},
              utm_source : {None, "google"},
              utm_campaign : {NULL},
              gclid : {None, "G1"},
              remote_addr : {"127.0.0.1", "203.0.113.7"},
              signature_valid : BOOLEAN,
              fault : {"none"}] :
        \* the provider, and only the provider, signs its requests
        /\ req.signature_valid => req.remote_addr = "203.0.113.7"
        \* an ad click is identified by its gclid or by its UTM source
        /\ req.gclid = None \/ req.utm_source = None}

\* The provider reports the duration with the final status.
StatusRequests ==
    {req \in [CallSid : CallSids \cup {None},
              CallStatus : {"in-progress", FinalStatus},
              CallDuration : {None, CallDuration, "abc"},
              fault : {"none"}] :
        req.CallStatus = FinalStatus => req.CallDuration # None}

RecordingRequests ==
    [CallSid : CallSids \cup {None},
     RecordingUrl : {RecordingUrl, None},
     RecordingSid : {RecordingSid},
     RecordingDuration : {"30"},
     fault : {"none"}]

\* The request is answered: the provider takes it as delivered unless the
\* answer is an error.
Deliver(sid, what, resp) ==
    IF sid \in CallSids /\ resp.status = 200
    THEN [delivered EXCEPT ![sid] = @ \cup {what}]
    ELSE delivered

\* POST /webhook/call
WebhookCall(req) ==
    /\ clock <= MaxClock
    /\ \E o \in webhook_call(WebStore, req) :
          /\ calls' = o.calls
          /\ tracking_sources' = o.tracking_sources
          /\ clock' = o.clock
          /\ response' = o.response
          /\ delivered' = IF o.response.document = "forward"
                          THEN Deliver(req.CallSid, "inbound", o.response)
                          ELSE delivered
    /\ request' = [endpoint |-> "call", call_sid |-> CallSidOf(req),
                   valid |-> validate_twilio_request(config, req),
                   routed |-> NoDestination \notin
                       get_destination_number(routes, req.To, req.campaign),
                   fault |-> req.fault]
    /\ UNCHANGED <<config, routeVars, contacts, deals, timeline_events, handlers, nEvents, aiVars, modelVars>>

\* POST /webhook/call-status
WebhookCallStatus(req) ==
    /\ clock <= MaxClock
    /\ LET o == webhook_call_status(WebStore, req)
       IN  /\ calls' = o.calls
           /\ clock' = o.clock
           /\ response' = o.response
           /\ delivered' = Deliver(req.CallSid, req.CallStatus, o.response)
    /\ request' = [endpoint |-> "call-status", call_sid |-> req.CallSid,
                   valid |-> TRUE, routed |-> FALSE, fault |-> req.fault]
    /\ UNCHANGED <<tracking_sources, config, routeVars, contacts, deals,
                   timeline_events, handlers, nEvents, aiVars, modelVars>>

\* POST /webhook/recording
WebhookRecording(req) ==
    /\ clock <= MaxClock
    /\ LET o == webhook_recording(WebStore, req)
       IN  /\ calls' = o.calls
           /\ clock' = o.clock
           /\ response' = o.response
           /\ delivered' = Deliver(req.CallSid, "recording", o.response)
    /\ request' = [endpoint |-> "recording", call_sid |-> req.CallSid,
                   valid |-> TRUE, routed |-> FALSE, fault |-> req.fault]
    /\ UNCHANGED <<tracking_sources, config, routeVars, contacts, deals,
                   timeline_events, handlers, nEvents, aiVars, modelVars>>

\* DatabaseService.health_check: a query on calls; False when it raises.
DatabaseService_health_check(store_ok) == store_ok

\* GET /health (webhook.py health_check): the JSON body is reduced to its
\* fields status and database.
health_check(store_ok) ==
    make_response(
        jsonify(IF DatabaseService_health_check(store_ok)
                THEN "healthy, database connected"
                ELSE "healthy, database disconnected"),
        200)

\* GET /health; the timestamp of the body is not kept.
Health(store_ok) ==
    /\ response' = health_check(store_ok)
    /\ request' = [endpoint |-> "health", call_sid |-> None, valid |-> TRUE,
                   routed |-> FALSE,
                   fault |-> IF store_ok THEN "none" ELSE "calls"]
    /\ UNCHANGED <<calls, tracking_sources, config, delivered, clock, routeVars,
                   contacts, deals, timeline_events, handlers, nEvents, aiVars, modelVars>>

\* The routes the webhook resolves against: T1 has a generic route of
\* organization 1 and a route for campaign 1 of organization 2; T2 has none.
RoutingTable ==
    {[id |-> 1, tracking_number |-> "T1", destination_number |-> "D1",
      campaign |-> NULL, is_active |-> TRUE, organization_id |-> 1],
     [id |-> 2, tracking_number |-> "T1", destination_number |-> "D2",
      campaign |-> 1, is_active |-> TRUE, organization_id |-> 2]}

WebhookInit ==
    /\ routes = RoutingTable
    /\ nextRouteId = Cardinality(RoutingTable) + 1
    /\ lastResolve = NoResolve
    /\ CrmIdle
    /\ calls = {}
    /\ tracking_sources = {}
    /\ config \in {cfg \in [DEBUG_MODE : BOOLEAN, TWILIO_AUTH_TOKEN : BOOLEAN] :
                       cfg.DEBUG_MODE => cfg.TWILIO_AUTH_TOKEN}
    /\ request = NoRequest
    /\ response = NoResponse
    /\ delivered = [sid \in CallSids |-> {}]
    /\ AiIdle
    /\ PayloadIdle

WebhookNext ==
    \/ \E req \in CallRequests : WebhookCall(req)
    \/ \E req \in StatusRequests : WebhookCallStatus(req)
    \/ \E req \in RecordingRequests : WebhookRecording(req)

SpecWebhook == WebhookInit /\ [][WebhookNext]_vars

\* The webhook of a production deployment while the store has outages: the
\* provider's requests, each with or without one table failing.
OutageCallRequests ==
    {req \in [CallSid : CallSids,
              From : {"P1"},
              To : TrackingNumbers,
              CallStatus : {"ringing"},
              campaign : {NULL, 2},
              utm_source : {None},
              utm_campaign : {NULL},
              gclid : {None, "G1"},
              remote_addr : {"203.0.113.7"},
              signature_valid : {TRUE},
              fault : Tables \cup {"none"}] :
        \* an outage of tracking_sources shows only in a request that uses it
        req.fault = "tracking_sources" => req.gclid # None}

OutageStatusRequests ==
    [CallSid : CallSids,
     CallStatus : {FinalStatus},
     CallDuration : {CallDuration},
     fault : {"none", "calls"}]

OutageRecordingRequests ==
    [CallSid : CallSids,
     RecordingUrl : {RecordingUrl},
     RecordingSid : {RecordingSid},
     RecordingDuration : {"30"},
     fault : {"none", "calls"}]

OutageInit ==
    /\ WebhookInit
    /\ config = [DEBUG_MODE |-> FALSE, TWILIO_AUTH_TOKEN |-> TRUE]

OutageNext ==
    \/ \E req \in OutageCallRequests : WebhookCall(req)
    \/ \E req \in OutageStatusRequests : WebhookCallStatus(req)
    \/ \E req \in OutageRecordingRequests : WebhookRecording(req)
    \/ \E store_ok \in BOOLEAN : Health(store_ok)

SpecOutage == OutageInit /\ [][OutageNext]_vars

----------------------------------------------------------------------------
(***************************************************************************)
(* Webhook and ledger claims                                               *)
(***************************************************************************)

\* The Call rows of one call_sid.
CallsOf(cs, sid) == {c \in cs : c.call_sid = sid}

\* C8: every Call row written by the inbound webhook carries the
\* organization_id of the route that resolution matched, a route of the
\* dialed number with the row's destination; it is never absent.
C8_CallCarriesRouteOrganization ==
    \A c \in calls :
        \E r \in routes :
            /\ r.tracking_number = c.to_number
            /\ r.destination_number = c.destination_number
            /\ c.organization_id = r.organization_id

\* C9: an inbound request that passes validation and resolves to a
\* destination, whether it is the first of its call_sid or a repetition,
\* leaves exactly one Call row of that call_sid and is answered 200 with the
\* forward document; a repetition leaves the row of the first request as it
\* was.
C9_RecordInboundIdempotent ==
    [][(request'.endpoint = "call" /\ request'.valid /\ request'.routed)
          => /\ Cardinality(CallsOf(calls', request'.call_sid)) = 1
             /\ CallsOf(calls, request'.call_sid) # {}
                   => CallsOf(calls', request'.call_sid) = CallsOf(calls, request'.call_sid)
             /\ response'.status = 200
             /\ response'.document = "forward"]_vars

\* C9 witness: the second of two requests was an inbound request of the
\* call_sid the first one had recorded, and it was answered with the forward
\* document.
C9_Witness ==
    /\ clock = 3
    /\ request.endpoint = "call" /\ request.valid /\ request.routed
    /\ Cardinality(calls) = 1
    /\ \E c \in calls : c.call_sid \in CallSids /\ c.created_at = 1 /\ c.updated_at = NULL
    /\ response.status = 200
    /\ response.document = "forward"

\* C10: in whatever order the inbound event, the status callbacks and the
\* recording callback of a call_sid arrive, once the inbound event, the
\* final status callback and the recording callback have all been handled
\* there is exactly one Call row of the call_sid and it carries the final
\* status and its duration and the recording's URL.
C10_ArrivalOrderFree ==
    \A sid \in CallSids :
        {"inbound", FinalStatus, "recording"} \subseteq delivered[sid]
        => /\ Cardinality(CallsOf(calls, sid)) = 1
           /\ \A c \in CallsOf(calls, sid) :
                 /\ c.status = FinalStatus
                 /\ c.duration = int(CallDuration).value
                 /\ c.recording_url = Mp3(RecordingUrl)

\* C11: update_call_status and update_call_recording, called with a call_sid
\* that has no Call row, return True or False and never raise, whether the
\* store answers or fails, and they leave the table as it was: no row is
\* created and none is changed.
C11_UpdateOfAbsentCall ==
    \A sid \in CallSids \cup {None}, store_ok \in BOOLEAN :
        CallsOf(calls, sid) = {}
        => LET s == DatabaseService_update_call_status(calls, sid, FinalStatus,
                        int(CallDuration).value, clock, store_ok)
               r == DatabaseService_update_call_recording(calls, sid, Mp3(RecordingUrl),
                        RecordingSid, int(CallDuration).value, clock, store_ok)
           IN  /\ s.result \in {"True", "False"}
               /\ s.calls = calls
               /\ r.result \in {"True", "False"}
               /\ r.calls = calls

\* C11 witness: a status or recording callback has been handled for a
\* call_sid that has no Call row, and there is still none.
C11_Witness ==
    /\ request.endpoint \in {"call-status", "recording"}
    /\ request.call_sid \in CallSids
    /\ CallsOf(calls, request.call_sid) = {}
    /\ response.status = 200

\* C13: a validated /webhook/call request for a number without an active
\* route is answered with the decline document, never with a dial
\* instruction, and inserts no Call row.
C13_NoRouteDeclines ==
    \A req \in CallRequests :
        /\ validate_twilio_request(config, req)
        /\ NoDestination \in get_destination_number(routes, req.To, req.campaign)
        => \A o \in webhook_call(WebStore, req) :
              /\ o.response.document = "decline"
              /\ o.response.destination = None
              /\ o.calls = calls

\* C14: every request that passed signature validation has been answered
\* with HTTP 200, on all three telephony endpoints.
C14_ValidatedAnswered200 ==
    request.valid => response.status = 200

\* C15: when the dialed number resolves to a destination, /webhook/call
\* answers 200 with a forward document dialing exactly that destination,
\* whether the tracking-source lookup and the insert of the Call row succeed
\* or fail; a failed tracking-source lookup leaves tracking_sources alone and
\* the new Call row without tracking_source_id.
C15_RoutedCallForwarded ==
    \A req \in OutageCallRequests :
        /\ req.fault # "phone_routing"
        /\ NoDestination \notin get_destination_number(routes, req.To, req.campaign)
        => \A o \in webhook_call(WebStore, req) :
              /\ o.response.status = 200
              /\ o.response.document = "forward"
              /\ o.response.destination
                    \in get_destination_number(routes, req.To, req.campaign)
              /\ req.fault = "calls" => o.calls = calls
              /\ req.fault = "tracking_sources"
                    => /\ o.tracking_sources = tracking_sources
                       /\ \A c \in o.calls \ calls : c.tracking_source_id = NULL
                       /\ CallsOf(calls, req.CallSid) = {}
                             => \E c \in o.calls \ calls :
                                   /\ c.call_sid = req.CallSid
                                   /\ c.destination_number = o.response.destination

\* C15 witness: a call was forwarded while the tracking-source lookup failed,
\* and its Call row is there without tracking_source_id.
C15_Witness ==
    /\ request.endpoint = "call"
    /\ request.routed
    /\ request.fault = "tracking_sources"
    /\ response.status = 200
    /\ response.document = "forward"
    /\ tracking_sources = {}
    /\ \E c \in calls :
          /\ c.call_sid = request.call_sid
          /\ c.tracking_source_id = NULL
          /\ c.destination_number = response.destination

\* C16: in a non-debug deployment a /webhook/call request whose signature
\* does not validate is answered 403 and writes nothing.
C16_BadSignatureRejected ==
    ~config.DEBUG_MODE
    => \A req \in CallRequests :
          ~req.signature_valid
          => \A o \in webhook_call(WebStore, req) :
                /\ o.response.status = 403
                /\ o.calls = calls
                /\ o.tracking_sources = tracking_sources

----------------------------------------------------------------------------
(***************************************************************************)
(* Post-call analysis (services/ai_service.py) and the dashboard's tag     *)
(* editor (app.py).                                                        *)
(***************************************************************************)

\* What was said in a recording: the keywords of _analyze_text_free that
\* occur in it, and the sign of its TextBlob polarity beyond +-0.1.
Texts ==
    {[words |-> {"marcar"}, polarity |-> 1],
     [words |-> {"cancelar", "dia"}, polarity |-> -1],
     [words |-> {"valor"}, polarity |-> 0],
     [words |-> {}, polarity |-> 0]}

\* The closed tag vocabulary: TAG_OPTIONS of app.py, allowed_tags of the
\* classifier's prompt.
TAG_OPTIONS ==
    {"Agendado", "Reagendado", "Cancelado", "Retornar ligação", "Enviar info",
     "Sem vaga", "Não Agendou", "Ligação errada"}

\* What the chat completion answers: a JSON object, or nothing usable.
GptReplies ==
    {[raised |-> FALSE, summary |-> "resumo", sentiment |-> "Positive",
      tags |-> <<"Agendado">>],
     [raised |-> FALSE, summary |-> "resumo", sentiment |-> "Negative",
      tags |-> <<"Cancelado", "Enviar info">>],
     [raised |-> FALSE, summary |-> "resumo", sentiment |-> "Neutral",
      tags |-> <<>>],
     [raised |-> FALSE, summary |-> "resumo", sentiment |-> "Neutral",
      tags |-> <<"Urgente">>],
     [raised |-> TRUE, summary |-> None, sentiment |-> None, tags |-> <<>>]}

\* What one run of process_call meets outside the program.
AnalysisInputs ==
    [download_ok : BOOLEAN,
     client : BOOLEAN,
     whisper_ok : BOOLEAN,
     gpt : GptReplies,
     free_ok : BOOLEAN,
     text : Texts,
     store_ok : BOOLEAN]

\* The tags the dashboard's editor offers.
UserTags == {"Agendado", "Não Agendou", "Limpar"}

\* _download_audio: a temporary file, or None.
_download_audio(inp) == inp.download_ok

\* _analyze_text_gpt: the parsed answer; {} when anything raises.
_analyze_text_gpt(inp) ==
    IF inp.gpt.raised
    THEN [summary |-> None, sentiment |-> None, tags |-> <<>>]
    ELSE [summary |-> inp.gpt.summary, sentiment |-> inp.gpt.sentiment,
          tags |-> inp.gpt.tags]

\* _process_openai: raises when the transcription does.
_process_openai(inp) ==
    IF ~inp.whisper_ok
    THEN [raised |-> TRUE]
    ELSE [raised |-> FALSE,
          text |-> inp.text,
          summary |-> _analyze_text_gpt(inp).summary,
          sentiment |-> _analyze_text_gpt(inp).sentiment,
          tags |-> _analyze_text_gpt(inp).tags]

\* _analyze_text_free: sentiment by polarity, one tag by the first keyword
\* group that matches.
_analyze_text_free(text) ==
    [sentiment |-> IF text.polarity > 0 THEN "Positive"
                   ELSE IF text.polarity < 0 THEN "Negative"
                   ELSE "Neutral",
     tags |-> IF text.words \cap {"marcar", "agendar", "confirmado", "dia", "horas"} # {}
              THEN <<"Agendado">>
              ELSE IF text.words \cap {"cancelar", "não posso", "desmarcar"} # {}
              THEN <<"Cancelado">>
              ELSE IF text.words \cap
                        {"preço", "valor", "quanto", "informação", "endereço"} # {}
              THEN <<"Enviar info">>
              ELSE IF text.words \cap {"não tem", "lotado", "sem vaga", "cheio"} # {}
              THEN <<"Sem vaga">>
              ELSE <<"Retornar ligação">>]

\* _process_free_tier: None (here raised) when conversion or recognition fail.
_process_free_tier(inp) ==
    IF ~inp.free_ok
    THEN [raised |-> TRUE]
    ELSE [raised |-> FALSE,
          text |-> inp.text,
          summary |-> "Resumo indisponível no modo gratuito (apenas transcrição).",
          sentiment |-> _analyze_text_free(inp.text).sentiment,
          tags |-> _analyze_text_free(inp.text).tags]

\* The unique constraint on ai_analysis.call_sid.
ai_analysis_call_sid_key(rows, row) == \A a \in rows : a.call_sid # row.call_sid

\* db.update_call_tag: DatabaseService has no such method (the function of
\* that name is in app.py), so the attribute lookup raises AttributeError.
DatabaseService_update_call_tag(cs, call_sid, tag, now) ==
    [calls |-> cs, raised |-> TRUE]

\* app.py update_call_tag
update_call_tag(cs, call_sid, tag, now) ==
    LET val == IF tag # None /\ tag # "Limpar" THEN tag ELSE None
    IN  {IF c.call_sid = call_sid
         THEN [c EXCEPT !.tags = val, !.updated_at = now]
         ELSE c : c \in cs}

\* The ai_analysis row _save_result builds.
AnalysisRow(call_sid, data, now) ==
    [call_sid |-> call_sid,
     transcription |-> data.text,
     summary |-> data.summary,
     sentiment |-> data.sentiment,
     tags |-> data.tags,
     created_at |-> now]

\* _save_result that replaces the row of the call_sid and sets Call.tags.
_save_result_Overwriting(st, call_sid, data, store_ok) ==
    IF ~store_ok
    THEN [ai_analysis |-> st.ai_analysis, calls |-> st.calls, raised |-> TRUE]
    ELSE [ai_analysis |-> {a \in st.ai_analysis : a.call_sid # call_sid}
                             \cup {AnalysisRow(call_sid, data, st.clock)},
          calls |-> IF data.tags # <<>>
                    THEN update_call_tag(st.calls, call_sid, data.tags[1], st.clock)
                    ELSE st.calls,
          raised |-> FALSE]

\* _save_result: a plain insert, then the tag write-back; nothing is caught.
_save_result(st, call_sid, data, store_ok) ==
    LET row == AnalysisRow(call_sid, data, st.clock)
    IN  IF ~store_ok \/ ~ai_analysis_call_sid_key(st.ai_analysis, row)
        THEN [ai_analysis |-> st.ai_analysis, calls |-> st.calls, raised |-> TRUE]
        ELSE IF data.tags # <<>>
        THEN LET tagged == DatabaseService_update_call_tag(st.calls, call_sid,
                               data.tags[1], st.clock)
             IN  [ai_analysis |-> st.ai_analysis \cup {row},
                  calls |-> tagged.calls, raised |-> tagged.raised]
        ELSE [ai_analysis |-> st.ai_analysis \cup {row}, calls |-> st.calls,
              raised |-> FALSE]

\* The result of the two transcription paths: OpenAI, then the free tier.
AnalysisResult(inp) ==
    IF inp.client /\ ~_process_openai(inp).raised
    THEN _process_openai(inp)
    ELSE _process_free_tier(inp)

\* process_call(call_sid, recording_url)
process_call(st, call_sid, recording_url, inp) ==
    LET failed == [ai_analysis |-> st.ai_analysis, calls |-> st.calls,
                   clock |-> st.clock, result |-> "False"]
    IN  IF recording_url = <<>>
        THEN failed
        ELSE IF ~_download_audio(inp)
        THEN failed
        ELSE IF AnalysisResult(inp).raised
        THEN failed
        ELSE LET saved == _save_result(st, call_sid, AnalysisResult(inp), inp.store_ok)
             IN  [ai_analysis |-> saved.ai_analysis, calls |-> saved.calls,
                  clock |-> st.clock + 1,
                  result |-> IF saved.raised THEN Raised ELSE "True"]

\* The tables process_call works on, and the time.
AIStore == [ai_analysis |-> ai_analysis, calls |-> calls, clock |-> clock]

AnalysisOf(rows, sid) == {a \in rows : a.call_sid = sid}

\* Call.tags of the rows of a call_sid.
TagsOf(cs, sid) == {c.tags : c \in CallsOf(cs, sid)}

\* The recording_url arguments of process_call: the URL the recording
\* webhook stored, or none (None or the empty string, here <<>>).
AnalysisUrls == {<<>>, Mp3(RecordingUrl)}

\* One run of AIService.process_call.
ProcessCall(sid, recording_url, inp) ==
    /\ clock <= MaxClock
    /\ LET o == process_call(AIStore, sid, recording_url, inp)
       IN  /\ ai_analysis' = o.ai_analysis
           /\ calls' = o.calls
           /\ clock' = o.clock
           /\ analysis' =
                 [call_sid |-> sid,
                  result |-> o.result,
                  rerun |-> AnalysisOf(ai_analysis, sid) # {},
                  edited |-> FALSE,
                  after_edit |-> AnalysisOf(ai_analysis, sid) # {} /\ analysis.edited,
                  tags_before |-> CHOOSE t \in TagsOf(calls, sid) : TRUE,
                  produced |-> IF recording_url # <<>> /\ _download_audio(inp)
                                  /\ ~AnalysisResult(inp).raised
                               THEN AnalysisResult(inp).tags ELSE <<>>,
                  saved |-> o.ai_analysis # ai_analysis]
    /\ UNCHANGED <<tracking_sources, config, request, response, delivered,
                   routeVars, contacts, deals, timeline_events, handlers, nEvents,
                   modelVars>>

\* The user sets or clears the tag of a call in the dashboard.
UpdateCallTag(sid, tag) ==
    /\ clock <= MaxClock
    /\ calls' = update_call_tag(calls, sid, tag, clock)
    /\ clock' = clock + 1
    /\ analysis' = [analysis EXCEPT !.edited = TRUE]
    /\ UNCHANGED <<ai_analysis, tracking_sources, config, request, response,
                   delivered, routeVars, contacts, deals, timeline_events,
                   handlers, nEvents, modelVars>>

\* A call that was forwarded and recorded, not analysed yet.
RecordedCall ==
    update_call_recording(
        insert_call({}, [call_sid |-> "CA1", from_number |-> "P1",
                         to_number |-> "T1", destination_number |-> "D1",
                         status |-> "ringing", campaign |-> NULL,
                         tracking_source_id |-> NULL, created_at |-> 1]).calls,
        "CA1", Mp3(RecordingUrl), RecordingSid, int(CallDuration).value, 1)

AIInit ==
    /\ routes = RoutingTable
    /\ nextRouteId = Cardinality(RoutingTable) + 1
    /\ lastResolve = NoResolve
    /\ CrmIdle
    /\ calls = RecordedCall
    /\ tracking_sources = {}
    /\ config = [DEBUG_MODE |-> FALSE, TWILIO_AUTH_TOKEN |-> TRUE]
    /\ request = NoRequest
    /\ response = NoResponse
    /\ delivered = [sid \in CallSids |-> {"inbound", "recording"}]
    /\ AiIdle
    /\ PayloadIdle

AINext ==
    \/ \E sid \in CallSids, inp \in AnalysisInputs :
          \E recording_url \in AnalysisUrls :
              ProcessCall(sid, recording_url, inp)
    \/ \E sid \in CallSids, tag \in UserTags : UpdateCallTag(sid, tag)

SpecAI == AIInit /\ [][AINext]_vars

\* C17: whatever process_call is run again for a call_sid, there is at most
\* one ai_analysis row of that call_sid afterwards, and a run that finds a row
\* already there changes nothing and does not raise.
C17_RerunIsNoOp ==
    \A sid \in CallSids, recording_url \in AnalysisUrls, inp \in AnalysisInputs :
        LET o == process_call(AIStore, sid, recording_url, inp)
        IN  /\ Cardinality(AnalysisOf(o.ai_analysis, sid)) <= 1
            /\ AnalysisOf(ai_analysis, sid) # {}
                  => o.result # Raised /\ o.ai_analysis = ai_analysis

C19_FailureIsReported ==
    \A sid \in CallSids, recording_url \in AnalysisUrls, inp \in AnalysisInputs :
        LET o == process_call(AIStore, sid, recording_url, inp)
        IN  o.result # "True"
            => /\ o.result = "False"
               /\ o.ai_analysis = ai_analysis
               /\ o.calls = calls

\* C20: a first analysis that gets a result and a working store leaves the
\* ai_analysis row with the full result, and Call.tags equal to the first
\* tag of the result, or unchanged when the result has no tag.
C20_FirstTagWrittenBack ==
    \A sid \in CallSids, inp \in AnalysisInputs :
        /\ AnalysisOf(ai_analysis, sid) = {}
        /\ _download_audio(inp)
        /\ ~AnalysisResult(inp).raised
        /\ inp.store_ok
        => LET o == process_call(AIStore, sid, Mp3(RecordingUrl), inp)
               data == AnalysisResult(inp)
           IN  /\ AnalysisOf(o.ai_analysis, sid)
                     = {AnalysisRow(sid, data, clock)}
               /\ IF data.tags # <<>>
                  THEN TagsOf(o.calls, sid) = {data.tags[1]}
                  ELSE o.calls = calls

----------------------------------------------------------------------------
(***************************************************************************)
(* Payload models: models/call.py                                          *)
(***************************************************************************)

\* str.lower() on the letters of the alphabet; any other character stays.
Uppercase ==
    <<"A", "B", "C", "D", "E", "F", "G", "H", "I", "J", "K", "L", "M",
      "N", "O", "P", "Q", "R", "S", "T", "U", "V", "W", "X", "Y", "Z">>

Lowercase ==
    <<"a", "b", "c", "d", "e", "f", "g", "h", "i", "j", "k", "l", "m",
      "n", "o", "p", "q", "r", "s", "t", "u", "v", "w", "x", "y", "z">>

lower_char(ch) ==
    IF \E i \in DOMAIN Uppercase : Uppercase[i] = ch
    THEN Lowercase[CHOOSE i \in DOMAIN Uppercase : Uppercase[i] = ch]
    ELSE ch

upper_char(ch) ==
    IF \E i \in DOMAIN Lowercase : Lowercase[i] = ch
    THEN Uppercase[CHOOSE i \in DOMAIN Lowercase : Lowercase[i] = ch]
    ELSE ch

lower(str) == [i \in DOMAIN str |-> lower_char(str[i])]

\* The provider's status strings, spelled out.
Queued == <<"q", "u", "e", "u", "e", "d">>
Ringing == <<"r", "i", "n", "g", "i", "n", "g">>
InProgress == <<"i", "n", "-", "p", "r", "o", "g", "r", "e", "s", "s">>
Completed == <<"c", "o", "m", "p", "l", "e", "t", "e", "d">>
Busy == <<"b", "u", "s", "y">>
NoAnswer == <<"n", "o", "-", "a", "n", "s", "w", "e", "r">>
Failed == <<"f", "a", "i", "l", "e", "d">>
Canceled == <<"c", "a", "n", "c", "e", "l", "e", "d">>

\* CallStatus = Literal[...]
CallStatus == {Ringing, InProgress, Completed, NoAnswer, Busy, Failed, Canceled}

\* status_map of _normalize_status
status_map ==
    [w \in CallStatus \cup {Queued} |-> IF w = Queued THEN Ringing ELSE w]

\* _normalize_status that looks the status up as it was sent.
_normalize_status_CaseSensitive(twilio_status) ==
    IF twilio_status \in DOMAIN status_map
    THEN status_map[twilio_status]
    ELSE Failed

\* _normalize_status: status_map.get(twilio_status.lower(), 'failed')
_normalize_status(twilio_status) ==
    IF lower(twilio_status) \in DOMAIN status_map
    THEN status_map[lower(twilio_status)]
    ELSE Failed

\* to_call_record, reduced to the fields computed from the payload: status
\* and duration = int(CallDuration or 0), which CallRecord wants >= 0.
to_call_record(p) ==
    LET duration == IF p.CallDuration \in {None, ""}
                    THEN [raised |-> FALSE, value |-> 0]
                    ELSE int(p.CallDuration)
    IN  IF duration.raised \/ duration.value < 0
           \/ _normalize_status(p.CallStatus) \notin CallStatus
        THEN [raised |-> TRUE, status |-> <<>>, duration |-> 0, made |-> TRUE]
        ELSE [raised |-> FALSE, status |-> _normalize_status(p.CallStatus),
              duration |-> duration.value, made |-> TRUE]

\* A string with at most MaxUpper of its characters put in upper case.
Capitalisations(w) ==
    {[i \in DOMAIN w |-> IF i \in S THEN upper_char(w[i]) ELSE w[i]] :
        S \in {T \in SUBSET DOMAIN w : Cardinality(T) <= MaxUpper}}

\* Status strings the provider may send: the known ones, and others (a
\* prefix, a longer word, one with a blank, the empty string).
StatusStrings ==
    UNION {Capitalisations(w) :
        w \in CallStatus \cup
              {Queued, <<>>, <<"q", "u", "e", "u", "e">>, <<"b", "u", "s", "y", " ">>,
               <<"i", "n", "i", "t", "i", "a", "t", "e", "d">>}}

PayloadInit ==
    /\ routes = {}
    /\ nextRouteId = 1
    /\ lastResolve = NoResolve
    /\ CrmIdle
    /\ calls = {}
    /\ tracking_sources = {}
    /\ config = [DEBUG_MODE |-> FALSE, TWILIO_AUTH_TOKEN |-> TRUE]
    /\ request = NoRequest
    /\ response = NoResponse
    /\ delivered = [sid \in CallSids |-> {}]
    /\ ai_analysis = {}
    /\ analysis = NoAnalysis
    /\ payload \in [CallStatus : StatusStrings, CallDuration : {"30", None, "abc"}]
    /\ record = NoRecord

\* payload.to_call_record()
ToCallRecord ==
    /\ ~record.made
    /\ record' = to_call_record(payload)
    /\ UNCHANGED <<payload, routeVars, crmVars, webhookVars, aiVars>>

PayloadNext == ToCallRecord

SpecPayload == PayloadInit /\ [][PayloadNext]_vars

\* C21: every tag in Call.tags and in AIAnalysis.tags is one of the eight
\* values of the vocabulary (Call.tags may be null), and a manual edit that
\* is handed any other value writes nothing of it.
C21_TagsInVocabulary ==
    /\ \A a \in ai_analysis : \A i \in DOMAIN a.tags : a.tags[i] \in TAG_OPTIONS
    /\ \A c \in calls : c.tags \in TAG_OPTIONS \cup {None}
    /\ \A sid \in CallSids :
          \A c \in update_call_tag(calls, sid, "Urgente", clock) :
              c.tags \in TAG_OPTIONS \cup {None}

\* C22: once /webhook/call has forwarded a validated, routed call and the
\* Call row is stored, the store also holds a Contact with the caller's
\* number, an OPEN Deal of that contact in the default stage and a
\* CALL_INBOUND TimelineEvent of it.
C22_RoutedCallReconciled ==
    /\ request.endpoint = "call"
    /\ request.valid
    /\ request.routed
    /\ response.document = "forward"
    => \A row \in CallsOf(calls, request.call_sid) :
          \E c \in contacts :
             /\ c.phone_number = row.from_number
             /\ \E d \in deals :
                   /\ d.contact_id = c.id
                   /\ d.status = "OPEN"
                   /\ d.stage_id \in get_default_stage_id(PipelineStages)
             /\ \E e \in timeline_events :
                   e.contact_id = c.id /\ e.event_type = "CALL_INBOUND"

\* C23: the timeline is append-only: every step of the reconciler and of the
\* dashboard leaves each existing TimelineEvent in place, unchanged.
C23_TimelineAppendOnly ==
    [][timeline_events \subseteq timeline_events']_vars

\* C23 witness: two inbound call events have been handled and the events of
\* the first are still there beside those of the second.
C23_Witness ==
    /\ nEvents = 2
    /\ \A p \in Procs : handlers[p].pc \in Resting
    /\ \E e, f \in timeline_events :
          /\ e.event_type = "CALL_INBOUND" /\ f.event_type = "CALL_INBOUND"
          /\ e.created_at < f.created_at
          /\ e.deal_id = f.deal_id

\* The key of a tracking-source request: (tracking_number, gclid) when a
\* gclid is given, (tracking_number, utm_campaign) otherwise.
TrackingKeyMatches(r, data) ==
    /\ r.tracking_number = data.tracking_number
    /\ IF data.gclid # None
       THEN r.gclid = data.gclid
       ELSE r.utm_campaign = data.utm_campaign

\* The dicts webhook_call hands to get_or_create_tracking_source.
TrackingRequests ==
    {data \in [tracking_number : TrackingNumbers,
               utm_source : {None, "google"},
               utm_campaign : {NULL, 2},
               gclid : {None, "G1"}] :
        data.utm_source # None \/ data.utm_campaign # NULL \/ data.gclid # None}

\* C24: there is at most one TrackingSource row per key, and
\* get_or_create_tracking_source returns a row that has the key of the
\* request, with last_call_at set to the time of the call when the row was
\* there before.
C24_TrackingSourceFindOrCreate ==
    /\ \A r1, r2 \in tracking_sources :
          (r1 # r2 /\ r1.tracking_number = r2.tracking_number)
          => /\ (r1.gclid # None /\ r2.gclid # None) => r1.gclid # r2.gclid
             /\ (r1.gclid = None /\ r2.gclid = None)
                   => r1.utm_campaign # r2.utm_campaign
    /\ \A data \in TrackingRequests :
          \A o \in get_or_create_tracking_source(tracking_sources, data, clock) :
              \E r \in o.tracking_sources :
                 /\ r.id = o.result
                 /\ TrackingKeyMatches(r, data)
                 /\ (\E old \in tracking_sources : old.id = r.id)
                       => r.last_call_at = clock

\* C25: a /webhook/call request without CallSid is rejected: no Call row is
\* stored for it, under the placeholder call_sid 'unknown' or any other
\* call_sid the provider did not send.
C25_NoPlaceholderCall ==
    /\ CallsOf(calls, "unknown") = {}
    /\ \A c \in calls : c.call_sid \in CallSids

\* C26: GET /health answers 200 "healthy, database connected" when the
\* connectivity check of the store succeeded, and a non-200 unhealthy
\* response when the store is unreachable.
C26_HealthReportsStore ==
    request.endpoint = "health"
    => IF request.fault = "none"
       THEN /\ response.status = 200
            /\ response.document = "healthy, database connected"
       ELSE /\ response.status # 200
            /\ response.document = "unhealthy"

\* s is the word w in some mixture of upper and lower case.
SameWord(s, w) ==
    /\ DOMAIN s = DOMAIN w
    /\ \A i \in DOMAIN w : s[i] \in {w[i], upper_char(w[i])}

\* C27: _normalize_status sends 'queued' to 'ringing', each of the seven
\* statuses of CallStatus to itself whatever the case of its letters, and
\* every other string to 'failed'; a CallRecord made by to_call_record has a
\* status of CallStatus.
C27_StatusNormalized ==
    LET sent == payload.CallStatus
        normalized == _normalize_status(sent)
    IN  /\ normalized \in CallStatus
        /\ SameWord(sent, Queued) => normalized = Ringing
        /\ \A w \in CallStatus : SameWord(sent, w) => normalized = w
        /\ (\A w \in CallStatus \cup {Queued} : ~SameWord(sent, w))
              => normalized = Failed
        /\ (record.made /\ ~record.raised)
              => record.status \in CallStatus /\ record.status = normalized

\* C27 witness: a record was made of a payload whose status was a known one
\* written with upper-case letters, and it carries the status in lower case.
C27_Witness ==
    /\ record.made
    /\ ~record.raised
    /\ record.status = Completed
    /\ payload.CallStatus # Completed
    /\ SameWord(payload.CallStatus, Completed)

\* C28: while a tracking number has no active route (each of its routes was
\* deleted or deactivated), every validated /webhook/call for it is answered
\* with the decline document and none is forwarded.
C28_DeactivatedNumberDeclined ==
    \A req \in OutageCallRequests :
        /\ req.fault = "none"
        /\ \E r \in routes : r.tracking_number = req.To
        /\ \A r \in routes : r.tracking_number = req.To => ~r.is_active
        => \A o \in webhook_call(WebStore, req) :
              /\ o.response.status = 200
              /\ o.response.document = "decline"
              /\ o.response.destination = None
              /\ o.calls = calls

\* C29: in every reachable store, for every contact with an OPEN deal,
\* handling one inbound call event appends exactly one CALL_INBOUND event, on
\* an OPEN deal the contact had, and a SYSTEM event on the same deal if and
\* only if that deal was not in the default stage before; the SYSTEM event
\* is appended before the CALL_INBOUND event, and nothing else is appended.
C29_SystemEventOnReturn ==
    \A c \in contacts, org \in Orgs :
        OpenDeals(deals, c.id) # {} =>
            \A o \in handle_incoming_call_event(Store, c.phone_number, org) :
                LET new == o.st.timeline_events \ timeline_events
                    inbound == {e \in new : e.event_type = "CALL_INBOUND"}
                    system == {e \in new : e.event_type = "SYSTEM"}
                IN  /\ new = inbound \cup system
                    /\ Cardinality(inbound) = 1
                    /\ Cardinality(system) <= 1
                    /\ \A e \in inbound :
                          /\ \E d \in OpenDeals(deals, c.id) :
                                /\ d.id = e.deal_id
                                /\ (system # {}) <=> (d.stage_id # DefaultStageId)
                          /\ \A s \in system :
                                /\ s.deal_id = e.deal_id
                                /\ s.id < e.id
                                /\ s.created_at < e.created_at

\* C29 witness: a call has been handled for a deal that had been dragged out
\* of the default stage: its SYSTEM event is there, and right after it the
\* CALL_INBOUND event of the same call.
C29_Witness ==
    /\ \A p \in Procs : handlers[p].pc \in Resting
    /\ \E s, e \in timeline_events :
          /\ s.event_type = "SYSTEM"
          /\ e.event_type = "CALL_INBOUND"
          /\ e.description = "Nova chamada recebida"
          /\ s.deal_id = e.deal_id
          /\ e.id = s.id + 1
          /\ s.created_at < e.created_at

\* C30: in a non-debug deployment with an auth token, a request to
\* /webhook/call-status or /webhook/recording whose Twilio signature does
\* not validate changes no Call row.  Neither endpoint takes the signature
\* into account, so the requests of the model stand for unsigned ones too.
C30_UnsignedCallbackChangesNothing ==
    (~config.DEBUG_MODE /\ config.TWILIO_AUTH_TOKEN)
    => /\ \A req \in StatusRequests :
             ~validate_twilio_request(config,
                 [remote_addr |-> "203.0.113.7", signature_valid |-> FALSE])
             => webhook_call_status(WebStore, req).calls = calls
       /\ \A req \in RecordingRequests :
             ~validate_twilio_request(config,
                 [remote_addr |-> "203.0.113.7", signature_valid |-> FALSE])
             => webhook_recording(WebStore, req).calls = calls

\* The values a Call row's status may take (models/call.py).
CallStatusLiteral ==
    {"ringing", "in-progress", "completed", "no-answer", "busy", "failed",
     "canceled"}

\* The CallStatus values the provider sends besides those of the requests
\* above: none at all, and the first status of a call's life.
OtherCallStatus == {None, "queued"}

\* C31: the status of every Call row is one of ringing, in-progress,
\* completed, no-answer, busy, failed, canceled, whatever CallStatus the
\* inbound and status webhooks receive, an absent CallStatus included.
C31_CallStatusInEnum ==
    /\ \A c \in calls : c.status \in CallStatusLiteral
    /\ \A req \in CallRequests, s \in OtherCallStatus :
          \A o \in webhook_call(WebStore, [req EXCEPT !.CallStatus = s]) :
              \A c \in o.calls : c.status \in CallStatusLiteral
    /\ \A req \in StatusRequests, s \in OtherCallStatus :
          \A c \in webhook_call_status(WebStore,
                       [req EXCEPT !.CallStatus = s]).calls :
              c.status \in CallStatusLiteral

\* C32: after any sequence of route creations, activations and
\* deactivations, a tracking number has at most one active generic route
\* (campaign absent).
C32_OneActiveGenericRoute ==
    \A r1, r2 \in routes :
        (/\ r1.tracking_number = r2.tracking_number
         /\ r1.is_active /\ r2.is_active
         /\ r1.campaign = NULL /\ r2.campaign = NULL)
        => r1 = r2

\* C33: handle_incoming_call_event never raises, whichever store round trip
\* fails: the worker ends in a return.  An event without organization_id is
\* skipped, the store not being touched.
C33_HandlerNeverRaises ==
    /\ \A p \in Procs : handlers[p].pc # "raised"
    /\ \A phone \in Phones :
          handle_incoming_call_event(Store, phone, NULL)
             = {Outcome(Store, Rest("skipped"))}

\* C33 witness: the store failed under a worker after the worker had
\* inserted its contact (the contact has no deal), the error was caught,
\* and an event without organization was skipped.
C33_Witness ==
    /\ \E p \in Procs : handlers[p].pc = "caught"
    /\ \E p \in Procs : handlers[p].pc = "skipped"
    /\ \E c \in contacts :
          /\ c # LegacyContact
          /\ \A d \in deals : d.contact_id # c.id

\* The columns the two updates write.
StatusColumns == {"status", "updated_at", "duration"}
RecordingColumns ==
    {"recording_url", "recording_sid", "recording_duration", "updated_at"}

\* C34: update_call_status changes only status and updated_at of the rows
\* of its call_sid, and duration when the reported duration is greater than
\* 0; update_call_recording changes only recording_url, recording_sid,
\* recording_duration and updated_at; every other column and every other
\* row stays as it was.
C34_PartialUpdates ==
    /\ \A sid \in CallSids \cup {None}, status \in {"in-progress", FinalStatus},
          duration \in {0, 30} :
          LET after == update_call_status(calls, sid, status, duration, clock)
          IN  /\ Cardinality(after) = Cardinality(calls)
              /\ \A c \in calls : \E a \in after :
                    /\ \A f \in DOMAIN c \ StatusColumns : a[f] = c[f]
                    /\ IF c.call_sid = sid
                       THEN /\ a.status = status
                            /\ a.updated_at = clock
                            /\ a.duration = IF duration > 0 THEN duration
                                            ELSE c.duration
                       ELSE a = c
    /\ \A sid \in CallSids \cup {None}, duration \in {0, 30} :
          LET after == update_call_recording(calls, sid, Mp3(RecordingUrl),
                                             RecordingSid, duration, clock)
          IN  /\ Cardinality(after) = Cardinality(calls)
              /\ \A c \in calls : \E a \in after :
                    /\ \A f \in DOMAIN c \ RecordingColumns : a[f] = c[f]
                    /\ IF c.call_sid = sid
                       THEN /\ a.recording_url = Mp3(RecordingUrl)
                            /\ a.recording_sid = RecordingSid
                            /\ a.recording_duration = duration
                            /\ a.updated_at = clock
                       ELSE a = c

\* C34 witness: a call that was reported completed after 30 seconds has had
\* a status update with no duration since: the 30 seconds are still there.
C34_Witness ==
    /\ request.endpoint = "call-status"
    /\ \E c \in calls :
          /\ c.call_sid = request.call_sid
          /\ c.status = "in-progress"
          /\ c.duration = 30
          /\ c.destination_number \in Destinations

\* C35: handle_incoming_call_event never modifies a CLOSED deal: the closed
\* deal of the store stays as it was, however the workers interleave, and
\* an inbound call of a contact whose deals are all CLOSED adds exactly one
\* deal, OPEN, in the default stage, and changes no other deal.
C35_ClosedDealUntouched ==
    /\ ClosedDeal \in deals
    /\ \A c \in contacts, org \in Orgs :
          LET mine == {d \in deals : d.contact_id = c.id}
          IN  (mine # {} /\ \A d \in mine : d.status = "CLOSED") =>
                 \A o \in handle_incoming_call_event(Store, c.phone_number, org) :
                    /\ deals \subseteq o.st.deals
                    /\ \E n \in o.st.deals \ deals :
                          /\ o.st.deals \ deals = {n}
                          /\ n.status = "OPEN"
                          /\ n.stage_id = DefaultStageId
                          /\ n.contact_id = c.id

\* C35 witness: the contact of the closed deal has called: there is a new
\* OPEN deal of the contact in the default stage, with its timeline event,
\* next to the closed one.
C35_Witness ==
    /\ ClosedDeal \in deals
    /\ \A p \in Procs : handlers[p].pc \in Resting
    /\ \E n \in deals, e \in timeline_events :
          /\ n.contact_id = ClosedDeal.contact_id
          /\ n.status = "OPEN"
          /\ n.stage_id = DefaultStageId
          /\ e.deal_id = n.id
          /\ e.description = "Lead criado via telefone"

\* C36: a /webhook/call request that ends in the decline answer (the dialed
\* number has no active route) leaves the store as it was: no Call row is
\* inserted, no TrackingSource row is created and no last_call_at is
\* updated, whatever UTM or gclid parameters the request carries.
C36_DeclineLeavesStoreUnchanged ==
    \A req \in CallRequests :
        \A o \in webhook_call(WebStore, req) :
            o.response = make_response(_create_no_destination_response, 200)
            => /\ o.calls = calls
               /\ o.tracking_sources = tracking_sources

\* C37: once every worker has returned, also after a store round trip
\* failed in the middle of handle_incoming_call_event, every deal with
\* source voice has a CALL_INBOUND timeline event that refers to it, and
\* every contact a call created has a deal.
C37_NoOrphanRecords ==
    (\A p \in Procs : handlers[p].pc \in Resting)
    => /\ \A d \in deals :
             d.source = "voice" =>
                \E e \in timeline_events :
                    e.deal_id = d.id /\ e.event_type = "CALL_INBOUND"
       /\ \A c \in contacts :
             c.id # LegacyContact.id =>
                \E d \in deals : d.contact_id = c.id

\* C38: a first analysis whose OpenAI path is unavailable or fails, while
\* the free-tier path obtains a transcript and the store works, returns
\* True and leaves exactly one ai_analysis row of the call, whose tags are
\* the one tag of the keyword heuristic, a tag of the vocabulary.
C38_DegradedAnalysisSucceeds ==
    \A sid \in CallSids, inp \in AnalysisInputs :
        /\ AnalysisOf(ai_analysis, sid) = {}
        /\ _download_audio(inp)
        /\ ~inp.client \/ _process_openai(inp).raised
        /\ ~_process_free_tier(inp).raised
        /\ inp.store_ok
        => LET o == process_call(AIStore, sid, Mp3(RecordingUrl), inp)
           IN  /\ o.result = "True"
               /\ \E a \in o.ai_analysis :
                     /\ AnalysisOf(o.ai_analysis, sid) = {a}
                     /\ a.tags = _analyze_text_free(inp.text).tags
                     /\ Len(a.tags) = 1
                     /\ a.tags[1] \in TAG_OPTIONS

\* C39: routes are never hard-deleted: no route management operation takes
\* a row out of phone_routing; removing a route sets is_active to false and
\* leaves the row, with its other columns, in place.
C39_RoutesNeverHardDeleted ==
    [][\A r \in routes :
          \E kept \in routes' :
              /\ kept.id = r.id
              /\ kept.tracking_number = r.tracking_number
              /\ kept.destination_number = r.destination_number]_vars

====
